---- MODULE Spec2Model ----
(***************************************************************************)
(* A model of pytex: the LaTeX processor (process.py), its diagnostic      *)
(* records and containers (message.py), the bibliography and index tools   *)
(* (bib.py, index.py) and the two convergence loops (pytex.py main and     *)
(* src/pytex/__main__.py run_pipeline).                                    *)
(*                                                                         *)
(* Text is a sequence of tokens, a token being a word or one blank " ".    *)
(* The empty string is the empty sequence.  A log file is the sequence of  *)
(* the matches the regular expressions of process.py find in it.           *)
(***************************************************************************)
EXTENDS Integers, Sequences, FiniteSets, TLC

VARIABLES
    doc,              \* the document compiled: decides what its log can hold
    quiet,            \* Processor._quiet
    warnings,         \* Processor._warnings: file key -> ProcessorWarnings
    global_warnings,  \* Processor._global_warnings: the members of a Messages
    input_files,      \* Processor._input_files
    errors,           \* Processor._errors
    rerun,            \* Processor._rerun
    return_code,      \* Processor._return_code: <<>> is None, <<rc>> after a run
    lastLog,          \* the log file left by the most recent compilation
    runs,             \* number of calls of Processor.run so far
    raised,           \* an exception left the last Processor.run
    hadDiagnostics,   \* the last Processor.run found diagnostics of an earlier pass
    report,           \* what the last Processor.run printed about errors
    pc,               \* position of the caller
    variant,          \* the loop that runs: "main" or "run_pipeline"
    setup,            \* the tool hints given and the kind of files the document has
    disk,             \* the text of the auxiliary files beside the source
    nb_cycles,        \* the cycle counter
    bibtool,          \* the Bibtool of the loop
    idxtool,          \* the Idxtool of the loop
    bib_exec,         \* run_pipeline: bib_exec
    index_exec,       \* run_pipeline: index_exec
    bibInvoked,       \* the files the bib binary was started on in this cycle
    idxInvoked,       \* the files the index binary was started on in this cycle
    allRerun,         \* every pass so far reported rerun
    cap_warned,       \* WARNING_MAX_NB_CYCLES was printed
    exit_status,      \* <<>> while running, <<status>> once the program ended
    pdf,              \* what src.exists() found after the loop
    call,             \* the last call made on a tool by a caller of its own
    collection,       \* a message.Messages of its own: its _members
    bucket,           \* a ProcessorWarnings of its own
    inserted,         \* the records added to collection and to bucket so far
    formatted         \* the last call of format() on a record, and what it gave

procVars == <<quiet, warnings, global_warnings, input_files, errors, rerun,
              return_code, lastLog, runs, raised, hadDiagnostics, report>>
loopVars == <<variant, setup, disk, nb_cycles, bibtool, idxtool, bib_exec,
              index_exec, bibInvoked, idxInvoked, allRerun, cap_warned,
              exit_status, pdf, call>>
collVars == <<collection, bucket, inserted, formatted>>
vars == <<doc, procVars, pc, loopVars, collVars>>

-----------------------------------------------------------------------------
(* Bounds of the model *)

MaxLogLen == 3
MaxLoopLogLen == 1
MaxRuns == 2
MaxOps == 3
MaxContent == 3
MaxLoopContent == 2
MaxCalls == 4

-----------------------------------------------------------------------------
(* Sequences and dictionaries *)

Range(s) == {s[i] : i \in 1..Len(s)}

RECURSIVE SeqsUpTo(_, _)
SeqsUpTo(S, n) ==
    IF n = 0 THEN {<<>>}
    ELSE LET shorter == SeqsUpTo(S, n - 1)
         IN  shorter \cup {Append(s, x) : s \in {t \in shorter : Len(t) = n - 1}, x \in S}

EmptyDict == [k \in {} |-> <<>>]

\* d[k] of a collections.defaultdict: the value read
DictGet(d, k, default) == IF k \in DOMAIN d THEN d[k] ELSE default

\* d[k] of a collections.defaultdict: the dictionary left behind
DictTouch(d, k, default) == IF k \in DOMAIN d THEN d ELSE d @@ (k :> default)

DictSet(d, k, v) == [x \in DOMAIN d \cup {k} |-> IF x = k THEN v ELSE d[x]]

-----------------------------------------------------------------------------
(* Text: str.strip and re.sub(r' {2,}', ' ', ...) *)

RECURSIVE LStrip(_)
LStrip(s) == IF s # <<>> /\ Head(s) = " " THEN LStrip(Tail(s)) ELSE s

RECURSIVE RStrip(_)
RStrip(s) ==
    IF s # <<>> /\ s[Len(s)] = " " THEN RStrip(SubSeq(s, 1, Len(s) - 1)) ELSE s

Strip(s) == RStrip(LStrip(s))

RECURSIVE CollapseSpaces(_)
CollapseSpaces(s) ==
    IF Len(s) < 2 THEN s
    ELSE IF s[1] = " " /\ s[2] = " " THEN CollapseSpaces(Tail(s))
    ELSE <<s[1]>> \o CollapseSpaces(Tail(s))

-----------------------------------------------------------------------------
(* message.py *)

Message(mode, info, name, path, line) ==
    [mode |-> mode, info |-> info, name |-> name, path |-> path, line |-> line]

\* an equality that does not look at the mode
MessageEqNoMode(a, b) ==
    /\ a.info = b.info
    /\ a.name = b.name
    /\ a.path = b.path
    /\ a.line = b.line

\* Message.__eq__
MessageEq(a, b) ==
    /\ a.mode = b.mode
    /\ a.info = b.info
    /\ a.name = b.name
    /\ a.path = b.path
    /\ a.line = b.line

\* ERROR_UNKNOWN_MESSAGE_SPECIFICATION.format(spec)
UnknownSpecification(spec) ==
    <<"[Message] Unknown format specification: '", spec, "'">>

\* what a call of format() gives: the text returned, or the error raised and its
\* message; and the record as the call leaves it
Formatted(returned, error, message, record) ==
    [raised |-> error # "", returned |-> returned, error |-> error,
     message |-> message, record |-> record]

\* a format that falls back on the text of an error for a specification it does
\* not know
Message_format_fallback(m, spec) ==
    IF spec = "proc_warning"
    THEN IF m.name = <<>>
         THEN Formatted(<<"[", m.mode, " Warning] ">> \o m.info, "", <<>>, m)
         ELSE Formatted(<<"[", m.mode, " ">> \o m.name \o <<" Warning] ">> \o m.info,
                        "", <<>>, m)
    ELSE Formatted(<<m.path, ":", m.line, " ">> \o m.info, "", <<>>, m)

\* Message.__format__
Message_format(m, spec) ==
    IF spec = "proc_warning"
    THEN IF m.name = <<>>
         THEN Formatted(<<"\t[", m.mode, " Warning] ">> \o m.info, "", <<>>, m)
         ELSE Formatted(<<"\t[", m.mode, " ">> \o m.name \o <<" Warning] ">> \o m.info,
                        "", <<>>, m)
    ELSE IF spec = "proc_error"
    THEN Formatted(<<m.path, ":", m.line, " ">> \o m.info, "", <<>>, m)
    ELSE Formatted(<<>>, "ValueError", UnknownSpecification(spec), m)

\* the specifications a caller may give: the two that are known, the default one
\* of format(m) and another one
FormatSpecs == {"proc_warning", "proc_error", "", "proc_info"}

\* other in self._members
MessagesContains(members, other) ==
    \E i \in 1..Len(members) : MessageEq(members[i], other)

\* an addition that skips the membership test
MessagesIAddAlways(members, other) == Append(members, other)

MessagesIAdd(members, other) ==
    IF MessagesContains(members, other) THEN members ELSE Append(members, other)

MessagesLen(members) == Len(members)

-----------------------------------------------------------------------------
(* process.py: ProcessorWarnings *)

EmptyProcessorWarnings ==
    [latex |-> EmptyDict, package |-> EmptyDict, class |-> EmptyDict]

ListContains(list, other) == \E i \in 1..Len(list) : MessageEq(list[i], other)

\* the value of "other in pw"; None (falsy) for a mode that is none of the three
PWContains(pw, other) ==
    IF other.mode = "LaTeX" THEN ListContains(DictGet(pw.latex, other.name, <<>>), other)
    ELSE IF other.mode = "Package"
         THEN ListContains(DictGet(pw.package, other.name, <<>>), other)
    ELSE IF other.mode = "Class"
         THEN ListContains(DictGet(pw.class, other.name, <<>>), other)
    ELSE FALSE

\* the container left by "other in pw": the defaultdict gets the name as a key
PWContainsTouch(pw, other) ==
    IF other.mode = "LaTeX"
    THEN [pw EXCEPT !.latex = DictTouch(pw.latex, other.name, <<>>)]
    ELSE IF other.mode = "Package"
         THEN [pw EXCEPT !.package = DictTouch(pw.package, other.name, <<>>)]
    ELSE IF other.mode = "Class"
         THEN [pw EXCEPT !.class = DictTouch(pw.class, other.name, <<>>)]
    ELSE pw

PWAppend(pw, other) ==
    LET a == IF other.mode = "LaTeX"
             THEN [pw EXCEPT !.latex =
                      DictSet(pw.latex, other.name,
                              Append(DictGet(pw.latex, other.name, <<>>), other))]
             ELSE IF other.mode = "Package"
             THEN [pw EXCEPT !.package =
                      DictSet(pw.package, other.name,
                              Append(DictGet(pw.package, other.name, <<>>), other))]
             ELSE pw
    IN  IF other.mode = "Class"
        THEN [a EXCEPT !.class =
                 DictSet(a.class, other.name,
                         Append(DictGet(a.class, other.name, <<>>), other))]
        ELSE a

PWIAdd(pw, other) ==
    IF PWContains(pw, other) THEN PWContainsTouch(pw, other)
    ELSE PWAppend(PWContainsTouch(pw, other), other)

PWLen(pw) ==
    Cardinality(DOMAIN pw.latex) + Cardinality(DOMAIN pw.package)
        + Cardinality(DOMAIN pw.class)

\* the messages a ProcessorWarnings stores
PWMessages(pw) ==
    UNION {Range(pw.latex[n]) : n \in DOMAIN pw.latex}
        \cup UNION {Range(pw.package[n]) : n \in DOMAIN pw.package}
        \cup UNION {Range(pw.class[n]) : n \in DOMAIN pw.class}

RECURSIVE SumLen(_, _)
SumLen(d, keys) ==
    IF keys = {} THEN 0
    ELSE LET k == CHOOSE x \in keys : TRUE
         IN  Len(d[k]) + SumLen(d, keys \ {k})

PWCount(pw) ==
    SumLen(pw.latex, DOMAIN pw.latex) + SumLen(pw.package, DOMAIN pw.package)
        + SumLen(pw.class, DOMAIN pw.class)

-----------------------------------------------------------------------------
(* The log file: what the regular expressions of process.py match in it *)

\* a match of the file branch of RE_COMBINED_INPUT_WARN_GENERIC
FileOpen(filename, suffix) ==
    [kind |-> "file", filename |-> filename, suffix |-> suffix, mode |-> "",
     name |-> <<>>, msg |-> <<>>, path |-> "", line |-> "", body |-> <<>>]

\* a match of the warning branch; name is <<>> when the group did not take part
Warn(mode, name, msg) ==
    [kind |-> "warn", filename |-> <<>>, suffix |-> <<>>, mode |-> mode,
     name |-> name, msg |-> msg, path |-> "", line |-> "", body |-> <<>>]

\* a match of RE_ERROR
Err(path, line, body) ==
    [kind |-> "error", filename |-> <<>>, suffix |-> <<>>, mode |-> "",
     name |-> <<>>, msg |-> <<>>, path |-> path, line |-> line, body |-> body]

F1 == FileOpen(<<"./a">>, <<".tex">>)
F2 == FileOpen(<<"./a">>, <<".aux">>)
W1 == Warn("Package", <<"p", " ">>, <<"a", " ", "b">>)
W1s == Warn("Package", <<"p", " ">>, <<"a", " ", " ", "b", " ">>)
W3 == Warn("Package", <<"p", " ">>, <<"c">>)
WC == Warn("Class", <<"p", " ">>, <<"a", " ", "b">>)
WR == Warn("LaTeX", <<>>, <<"x", " ", "Rerun">>)
E1 == Err("ch.tex", "42", <<" ", "Undefined">>)
E2 == Err("ch.tex", "7", <<" ", "Missing">>)

Documents == {"files", "spaces", "names", "errors", "rerun"}

LogItems(d) ==
    IF d = "files" THEN {F1, F2, W1}
    ELSE IF d = "spaces" THEN {F1, W1, W1s}
    ELSE IF d = "names" THEN {W1, W3, WC}
    ELSE IF d = "errors" THEN {E1, E2, W1}
    ELSE {WR, E1}

\* the compiler leaves a log file, or none
LogsOf ==
    [d \in Documents |->
        {[exists |-> TRUE, items |-> s] :
            s \in SeqsUpTo(LogItems(d), IF d = "rerun" THEN MaxLoopLogLen ELSE MaxLogLen)}
            \cup {[exists |-> FALSE, items |-> <<>>]}]

Logs(d) == LogsOf[d]

NoLog == [exists |-> FALSE, items |-> <<>>]

ReturnCodes == {0, 1}

-----------------------------------------------------------------------------
(* process.py: Processor *)

\* RE_RERUN.search(txt) on the text of one warning
RerunMatch(m) ==
    /\ m.kind = "warn"
    /\ \/ m.mode = "LaTeX" /\ m.name = <<>>
       \/ m.mode = "Package"
    /\ "Rerun" \in Range(m.msg)

\* a flag that is never taken back
RerunSearchSticky(items) == rerun \/ \E i \in 1..Len(items) : RerunMatch(items[i])

\* RE_RERUN.search(txt) is not None
RerunSearch(items) == \E i \in 1..Len(items) : RerunMatch(items[i])

\* message.Message(mode=..., name=..., info=...) of process_warnings
NewWarning(m) == Message(m.mode, CollapseSpaces(Strip(m.msg)), Strip(m.name), "", "")

\* message.Message(path=..., line=..., info=...) of process_errors
NewError(m) == Message("", m.body, <<>>, m.path, m.line)

\* the file key of a file match
FileKey(m) == m.filename \o m.suffix

\* a turn that files a warning without looking at the global collection
WarnStepNoGlobal(st, m) ==
    IF m.kind = "file"
    THEN [st EXCEPT !.file_key = FileKey(m),
                    !.input_files = IF FileKey(m) \in Range(@) THEN @
                                    ELSE Append(@, FileKey(m))]
    ELSE IF m.kind = "warn"
    THEN [st EXCEPT
            !.warnings = DictSet(@, st.file_key,
                PWIAdd(DictGet(@, st.file_key, EmptyProcessorWarnings),
                       NewWarning(m))),
            !.global_warnings = MessagesIAdd(@, NewWarning(m))]
    ELSE st

\* a turn that files a new warning and does not add it to the global collection
WarnStepForgetsGlobal(st, m) ==
    IF m.kind = "file"
    THEN [st EXCEPT !.file_key = FileKey(m),
                    !.input_files = IF FileKey(m) \in Range(@) THEN @
                                    ELSE Append(@, FileKey(m))]
    ELSE IF m.kind = "warn"
    THEN IF ~MessagesContains(st.global_warnings, NewWarning(m))
         THEN [st EXCEPT
                 !.warnings = DictSet(@, st.file_key,
                     PWIAdd(DictGet(@, st.file_key, EmptyProcessorWarnings),
                            NewWarning(m)))]
         ELSE st
    ELSE st

\* a turn that adds the file key to the ledger without looking for it there
WarnStepDupFiles(st, m) ==
    IF m.kind = "file"
    THEN [st EXCEPT !.file_key = FileKey(m), !.input_files = Append(@, FileKey(m))]
    ELSE IF m.kind = "warn"
    THEN IF ~MessagesContains(st.global_warnings, NewWarning(m))
         THEN [st EXCEPT
                 !.warnings = DictSet(@, st.file_key,
                     PWIAdd(DictGet(@, st.file_key, EmptyProcessorWarnings),
                            NewWarning(m))),
                 !.global_warnings = MessagesIAdd(@, NewWarning(m))]
         ELSE st
    ELSE st

\* one turn of the loop of process_warnings
WarnStep(st, m) ==
    IF m.kind = "file"
    THEN [st EXCEPT !.file_key = FileKey(m),
                    !.input_files = IF FileKey(m) \in Range(@) THEN @
                                    ELSE Append(@, FileKey(m))]
    ELSE IF m.kind = "warn"
    THEN IF ~MessagesContains(st.global_warnings, NewWarning(m))
         THEN [st EXCEPT
                 !.warnings = DictSet(@, st.file_key,
                     PWIAdd(DictGet(@, st.file_key, EmptyProcessorWarnings),
                            NewWarning(m))),
                 !.global_warnings = MessagesIAdd(@, NewWarning(m))]
         ELSE st
    ELSE st

RECURSIVE WarnLoop(_, _)
WarnLoop(st, items) ==
    IF items = <<>> THEN st ELSE WarnLoop(WarnStep(st, Head(items)), Tail(items))

\* process_warnings on an existing log file
process_warnings(files, w, g, items) ==
    WarnLoop([file_key |-> <<>>, input_files |-> files, warnings |-> w,
              global_warnings |-> g], items)

\* a list of errors that takes an error once
RECURSIVE process_errors_dedup(_, _)
process_errors_dedup(errs, items) ==
    IF items = <<>> THEN errs
    ELSE process_errors_dedup(
             IF Head(items).kind = "error" /\ ~ListContains(errs, NewError(Head(items)))
             THEN Append(errs, NewError(Head(items))) ELSE errs,
             Tail(items))

\* process_errors on an existing log file
RECURSIVE process_errors(_, _)
process_errors(errs, items) ==
    IF items = <<>> THEN errs
    ELSE process_errors(IF Head(items).kind = "error"
                        THEN Append(errs, NewError(Head(items))) ELSE errs,
                        Tail(items))

\* a pass that starts with the diagnostics of the pass before
run_reset_keep(w, g, e) == [warnings |-> w, global_warnings |-> g, errors |-> e]

\* the diagnostics a new pass starts with
run_reset(w, g, e) == [warnings |-> EmptyDict, global_warnings |-> <<>>, errors |-> <<>>]

\* a pass that starts with an empty ledger, without the entry of the preamble
run_input_files_empty(files) == <<>>

\* the ledger a new pass starts with
run_input_files(files) == files

\* get_warnings(ifile) for every file of the ledger, unless quiet
RECURSIVE ShowWarnings(_, _)
ShowWarnings(w, files) ==
    IF files = <<>> THEN w
    ELSE ShowWarnings(DictTouch(w, Head(files), EmptyProcessorWarnings), Tail(files))

\* a report that does not look at the return code
run_report_by_errors(errs, rc, q) ==
    IF Len(errs) > 0 THEN "Errors found!"
    ELSE IF ~q THEN "INFO_NO_ERROR_FOUND"
    ELSE "nothing"

\* what run prints once the log is parsed: the errors found; or, with no error,
\* that the return code is not null; or, unless quiet, that there is no error
run_report(errs, rc, q) ==
    IF Len(errs) > 0 THEN "Errors found!"
    ELSE IF rc # 0 THEN "ERROR_NO_ERROR_FOUND"
    ELSE IF ~q THEN "INFO_NO_ERROR_FOUND"
    ELSE "nothing"

\* a return code that is stored once the log file has been read
run_return_code_after_log(log, rc) == IF log.exists THEN <<rc>> ELSE return_code

\* "self._return_code = sproc.returncode", before the log file is read
run_return_code(log, rc) == <<rc>>

\* Processor.run: the compiler exits with rc and leaves log
Processor_run(log, rc) ==
    \E start \in {run_reset(warnings, global_warnings, errors)} :
    \E parsed \in {process_warnings(run_input_files(input_files), start.warnings,
                                    start.global_warnings, log.items)} :
        /\ return_code' = run_return_code(log, rc)
        /\ lastLog' = log
        /\ runs' = runs + 1
        /\ hadDiagnostics' = (global_warnings # <<>> \/ errors # <<>>)
        /\ UNCHANGED quiet
        /\ IF ~log.exists
           THEN \* log_file.read_text raises FileNotFoundError
                /\ raised' = TRUE
                /\ warnings' = start.warnings
                /\ global_warnings' = start.global_warnings
                /\ errors' = start.errors
                /\ report' = "nothing"
                /\ UNCHANGED <<rerun, input_files>>
           ELSE /\ raised' = FALSE
                /\ rerun' = RerunSearch(log.items)
                /\ input_files' = parsed.input_files
                /\ global_warnings' = parsed.global_warnings
                /\ errors' = process_errors(start.errors, log.items)
                /\ report' = run_report(errors', rc, quiet)
                /\ warnings' = IF quiet THEN parsed.warnings
                               ELSE ShowWarnings(parsed.warnings, parsed.input_files)

\* a processor that starts satisfied
InitialRerunFalse == FALSE

\* Processor.__init__: the files have to be processed at least once
InitialRerun == TRUE

\* Processor.__init__
Processor_init ==
    /\ return_code = <<>>
    /\ warnings = EmptyDict
    /\ global_warnings = <<>>
    /\ input_files = << <<>> >>
    /\ errors = <<>>
    /\ rerun = InitialRerun
    /\ lastLog = NoLog
    /\ runs = 0
    /\ raised = FALSE
    /\ hadDiagnostics = FALSE
    /\ report = "nothing"

-----------------------------------------------------------------------------
(* The auxiliary files.  A text is a number from 1 on, 0 a file that is     *)
(* missing; two texts t hold the same relevant directives when Rel(t)      *)
(* agrees, so that texts 2 and 3 differ only in irrelevant content.        *)

\* the texts a file may hold when the tools are called one by one
Texts == 1..MaxContent

\* the texts a file may hold in a run of the pipeline
LoopTexts == 1..MaxLoopContent

Rel(t) == t \div 2

\* the value of md5(...).hexdigest() of a text; "" is <<>>
Md5(content) == <<"md5">> \o content

\* the result of a call: a value, or an exception
Ok(v) == [raised |-> FALSE, value |-> v]
Raise == [raised |-> TRUE, value |-> <<>>]

\* a tool that is None or ""
NoTool(tool) == tool = "None" \/ tool = ""

\* what an external binary hands back: its return code and what it printed
Outcome(rc, out, err) == [return_code |-> rc, stdout |-> out, stderr |-> err]

Outcomes == {Outcome(0, <<"ok">>, <<>>), Outcome(1, <<>>, <<"failed">>)}

\* (self._stdout, self._stderr, self._return_code) = ("", "", None)
ToolObject(built, tool, files) ==
    [built |-> built, tool |-> tool, files |-> files, fingerprint |-> <<>>,
     return_code |-> <<>>, stdout |-> <<>>, stderr |-> <<>>]

\* the fields run() sets from the process that ended
Communicate(t, o) ==
    [t EXCEPT !.return_code = <<o.return_code>>, !.stdout = o.stdout,
              !.stderr = o.stderr]

-----------------------------------------------------------------------------
(* bib.py *)

\* a guess that falls back on bibtex without looking for directives
guess_bibtool_no_evidence(d) == IF d.bcf # 0 THEN "biber" ELSE "bibtex"

guess_bibtool(d) ==
    IF d.bcf # 0 THEN "biber"
    ELSE IF d.nAux > 0 THEN "bibtex"
    ELSE "None"

\* the .aux files that hold bib directives
AuxFiles(d) == SubSeq(<<"a.aux", "b.aux">>, 1, d.nAux)

guess_bibfiles(d, tool) ==
    IF tool = "biber" THEN (IF d.bcf # 0 THEN <<"a.bcf">> ELSE <<>>)
    ELSE AuxFiles(d)

\* the bib directives RE_BIB finds in the .aux files, file after file
RECURSIVE BibDirectives(_, _)
BibDirectives(d, files) ==
    IF files = <<>> THEN <<>>
    ELSE <<"bib", Rel(d.aux)>> \o BibDirectives(d, Tail(files))

hash_bibfiles(d, tool) ==
    IF tool = "biber"
    THEN IF guess_bibfiles(d, tool) = <<>> THEN Raise    \* bibfiles[0]: IndexError
         ELSE Ok(Md5(<<"text", d.bcf>>))
    ELSE IF tool = "bibtex"
    THEN Ok(Md5(BibDirectives(d, guess_bibfiles(d, tool))))
    ELSE Ok(<<>>)

NoBibtool == ToolObject(FALSE, "None", <<>>)

\* Bibtool.__init__
Bibtool_init(d, hint) ==
    LET tool == IF NoTool(hint) THEN guess_bibtool(d) ELSE hint
    IN  Ok(ToolObject(TRUE, tool, guess_bibfiles(d, tool)))

\* Bibtool.get_rerun: the stored fingerprint is not the one of the files now
Bibtool_get_rerun(t, d) ==
    IF hash_bibfiles(d, t.tool).raised THEN Raise
    ELSE Ok(hash_bibfiles(d, t.tool).value # t.fingerprint)

\* the object Bibtool.get_rerun leaves
Bibtool_get_rerun_leaves(t, d) == t

\* the fingerprint Bibtool.run stores: the one of the files the binary left
Bibtool_run_fingerprint(before, after, tool) == hash_bibfiles(after, tool)

\* a run that goes on without a tool
Bibtool_run_skip_never(t) == FALSE

\* "if not self._tool or self._tool == "": return"
Bibtool_run_skip(t) == NoTool(t.tool)

\* Bibtool.run, the binary ending with o and leaving the files as in "after": the
\* tool left, whether the binary was started, and the value returned
Bibtool_run(t, before, after, o) ==
    IF Bibtool_run_skip(t)
    THEN [raised |-> FALSE, tool |-> t, started |-> FALSE, value |-> FALSE]
    ELSE IF Bibtool_run_fingerprint(before, after, t.tool).raised
    THEN [raised |-> TRUE, tool |-> Communicate(t, o), started |-> TRUE,
          value |-> FALSE]
    ELSE [raised |-> FALSE,
          tool |-> [Communicate(t, o) EXCEPT !.fingerprint =
                       Bibtool_run_fingerprint(before, after, t.tool).value],
          started |-> TRUE, value |-> TRUE]

-----------------------------------------------------------------------------
(* index.py *)

\* "not tagged_idx" and "if tagged_idx": the truth value of the generator glob returns
GlobTruth(d) == TRUE

\* the loop over the <filename>-*.idx files reads a str: AttributeError if there is one
GroupLoopRaises(d) == GlobTruth(d) /\ d.groups > 0

guess_index_tool(d) ==
    IF d.idx # 0 /\ d.tagged THEN Ok("splitindex")
    ELSE IF d.idx # 0 /\ ~d.tagged /\ ~GlobTruth(d) THEN Ok("makeindex")
    ELSE IF GroupLoopRaises(d) THEN Raise
    ELSE Ok("None")

guess_index_files(d, tool) ==
    IF tool = "splitindex" THEN Ok(<<"a.idx">>)
    ELSE IF d.idx # 0 /\ ~d.tagged /\ ~GlobTruth(d) THEN Ok(<<"a.tex">>)
    ELSE IF GroupLoopRaises(d) THEN Raise
    ELSE Ok(<<>>)

hash_index_files(d, tool) ==
    IF guess_index_files(d, tool).raised THEN Raise
    ELSE IF tool = "splitindex"
    THEN IF d.idx = 0 THEN Raise                        \* read_text: FileNotFoundError
         ELSE Ok(Md5(<<"text", d.idx>>))
    ELSE IF tool = "makeindex"
    THEN IF guess_index_files(d, tool).value # <<>>
         THEN Raise                                     \* RE_INDEX is a str: no finditer
         ELSE Ok(Md5(<<>>))
    ELSE Ok(<<>>)

NoIdxtool == ToolObject(FALSE, "None", <<>>)

\* Idxtool.__init__
Idxtool_init(d, hint) ==
    IF guess_index_tool(d).raised THEN Raise
    ELSE LET tool == IF NoTool(hint) THEN guess_index_tool(d).value ELSE hint
         IN  IF guess_index_files(d, tool).raised THEN Raise
             ELSE Ok(ToolObject(TRUE, tool, guess_index_files(d, tool).value))

\* a tool that always asks to be run again
Idxtool_get_rerun_always(t, d) == Ok(TRUE)

\* Idxtool.get_rerun: the stored fingerprint is not the one of the files now
Idxtool_get_rerun(t, d) ==
    IF hash_index_files(d, t.tool).raised THEN Raise
    ELSE Ok(hash_index_files(d, t.tool).value # t.fingerprint)

\* a get_rerun() that stores the fingerprint it has just computed
Idxtool_get_rerun_stores(t, d) ==
    IF hash_index_files(d, t.tool).raised THEN t
    ELSE [t EXCEPT !.fingerprint = hash_index_files(d, t.tool).value]

\* the object Idxtool.get_rerun leaves: it only reads self._fingerprint
Idxtool_get_rerun_leaves(t, d) == t

\* the fingerprint Idxtool.run stores: the one of the files the binary is started on
Idxtool_run_fingerprint(before, after, tool) == hash_index_files(before, tool)

\* "if not self._tool or self._tool == "": return"
Idxtool_run_skip(t) == NoTool(t.tool)

\* Idxtool.run, the binary ending with o and leaving the files as in "after"
Idxtool_run(t, before, after, o) ==
    IF Idxtool_run_skip(t)
    THEN [raised |-> FALSE, tool |-> t, started |-> FALSE, value |-> FALSE]
    ELSE IF Idxtool_run_fingerprint(before, after, t.tool).raised
    THEN [raised |-> TRUE, tool |-> t, started |-> FALSE, value |-> FALSE]
    ELSE [raised |-> FALSE,
          tool |-> [Communicate(t, o) EXCEPT !.fingerprint =
                       Idxtool_run_fingerprint(before, after, t.tool).value],
          started |-> TRUE, value |-> TRUE]

-----------------------------------------------------------------------------
(* The documents the loops are run on *)

Setup(bib_hint, index_hint, bcf, nAux, idx, tagged, groups) ==
    [bib_hint |-> bib_hint, index_hint |-> index_hint, bcf |-> bcf, nAux |-> nAux,
     idx |-> idx, tagged |-> tagged, groups |-> groups]

Setups ==
    { Setup("", "", FALSE, 0, FALSE, FALSE, 0),              \* no bibliography, no index
      Setup("", "", TRUE, 0, FALSE, FALSE, 0),               \* a .bcf file
      Setup("", "", FALSE, 2, TRUE, TRUE, 0),                \* two .aux files, tagged .idx
      Setup("", "", FALSE, 0, TRUE, FALSE, 0),               \* an untagged .idx
      Setup("biber", "", FALSE, 1, FALSE, FALSE, 0),         \* biber asked for, no .bcf
      Setup("bibtex", "makeindex", TRUE, 1, TRUE, FALSE, 0), \* both tools asked for
      Setup("", "splitindex", FALSE, 0, FALSE, FALSE, 0),    \* splitindex asked for, no .idx
      Setup("", "", FALSE, 0, TRUE, FALSE, 2),               \* two <texfile>-*.idx files
      Setup("", "xindy", FALSE, 0, TRUE, FALSE, 0) }         \* another index tool asked for

InitialDisk(s) ==
    [bcf |-> IF s.bcf THEN 1 ELSE 0, nAux |-> s.nAux,
     aux |-> IF s.nAux > 0 THEN 1 ELSE 0,
     idx |-> IF s.idx THEN 1 ELSE 0, tagged |-> s.tagged, groups |-> s.groups]

\* a file that exists gets the text t, a missing one stays missing
Rewrite(old, t) == IF old = 0 THEN 0 ELSE t

\* what a compilation leaves of the auxiliary files
CompileWrites(d, texts) ==
    {[d EXCEPT !.bcf = Rewrite(@, b), !.aux = Rewrite(@, a), !.idx = Rewrite(@, i)] :
        b \in texts, a \in texts, i \in texts}

\* what the bib binary leaves of the file it is given
BibWrites(d, tool, t) ==
    IF tool = "biber" THEN [d EXCEPT !.bcf = Rewrite(@, t)]
    ELSE [d EXCEPT !.aux = Rewrite(@, t)]

\* what the index binary leaves of the file it is given
IdxWrites(d, tool, t) == [d EXCEPT !.idx = Rewrite(@, t)]

-----------------------------------------------------------------------------
(* pytex.py main and src/pytex/__main__.py run_pipeline *)

max_nb_cycles == 5

Variants == {"main", "run_pipeline"}

\* a loop that does not count its cycles
LoopConditionNoCap ==
    IF variant = "main" THEN rerun ELSE rerun \/ bib_exec \/ index_exec

\* the condition of the while loop
LoopCondition ==
    IF variant = "main"
    THEN rerun /\ nb_cycles < max_nb_cycles
    ELSE (rerun \/ bib_exec \/ index_exec) /\ nb_cycles < max_nb_cycles

\* a warning given only past the maximum
CapWarningPast == rerun /\ nb_cycles > max_nb_cycles

\* the condition of the warning after the loop
CapWarning == rerun /\ nb_cycles >= max_nb_cycles

\* a caller that ignores the errors
ErrorsIgnored(errs) == FALSE

\* len(processor.get_errors()) > 0
ErrorsFound(errs) == Len(errs) > 0

\* a counter that is never moved
NextCycleNever(n) == n

\* "nb_cycles += 1"
NextCycle(n) == n + 1

\* a cycle that runs the index tool before the bib tool
NextStageIndexFirst(stage) ==
    IF stage = "run_latex" THEN "run_index"
    ELSE IF stage = "run_index" THEN "run_bib"
    ELSE "while"

\* the body of the loop: run_latex, then run_bib, then run_index, then the test
NextStage(stage) ==
    IF stage = "run_latex" THEN "run_bib"
    ELSE IF stage = "run_bib" THEN "run_index"
    ELSE "while"

\* a loop that builds its Bibtool anew in every cycle
GetBibtoolAnew(t, d, hint) == Bibtool_init(d, hint)

\* "if not bibtool: bibtool = bib.Bibtool(texfile, encoding, bib_hint, quiet)"
GetBibtool(t, d, hint) == IF t.built THEN Ok(t) ELSE Bibtool_init(d, hint)

\* "if not idxtool: idxtool = index.Idxtool(texfile, encoding, index_hint, quiet)"
GetIdxtool(t, d, hint) == IF t.built THEN Ok(t) ELSE Idxtool_init(d, hint)

\* a turn that calls tool.run(bibunit) and drops what it returns
BibTurnDropsValue(v, st, file, e) ==
    IF st.raised THEN st
    ELSE LET after == IF Bibtool_run_skip(st.tool) THEN st.disk
                      ELSE BibWrites(st.disk, st.tool.tool, e.text)
             r == Bibtool_run(st.tool, st.disk, after, e.outcome)
         IN  [raised |-> r.raised, tool |-> r.tool, disk |-> after,
              invoked |-> IF r.started THEN Append(st.invoked, file) ELSE st.invoked,
              exec |-> st.exec]

\* one turn of "for bibunit in tool.get_bibfiles()", the binary leaving the text
\* e.text and ending with e.outcome
BibTurn(v, st, file, e) ==
    IF st.raised THEN st
    ELSE IF v = "run_pipeline" /\ st.exec THEN st     \* bib_exec or tool.run(bibunit)
    ELSE LET after == IF Bibtool_run_skip(st.tool) THEN st.disk
                      ELSE BibWrites(st.disk, st.tool.tool, e.text)
             r == Bibtool_run(st.tool, st.disk, after, e.outcome)
         IN  [raised |-> r.raised, tool |-> r.tool, disk |-> after,
              invoked |-> IF r.started THEN Append(st.invoked, file) ELSE st.invoked,
              exec |-> IF v = "run_pipeline" THEN r.value ELSE st.exec]

RECURSIVE BibLoop(_, _, _, _)
BibLoop(v, st, files, env) ==
    IF files = <<>> THEN st
    ELSE BibLoop(v, BibTurn(v, st, Head(files), env[Len(files)]), Tail(files), env)

\* run_bib
run_bib(v, t, d, env) ==
    LET st == [raised |-> FALSE, tool |-> t, disk |-> d, invoked |-> <<>>,
               exec |-> FALSE]
    IN  IF Bibtool_get_rerun(t, d).raised THEN [st EXCEPT !.raised = TRUE]
        ELSE IF Bibtool_get_rerun(t, d).value THEN BibLoop(v, st, t.files, env)
        ELSE st

IdxTurn(v, st, file, e) ==
    IF st.raised THEN st
    ELSE IF v = "run_pipeline" /\ st.exec THEN st
    ELSE LET after == IF Idxtool_run_skip(st.tool) THEN st.disk
                      ELSE IdxWrites(st.disk, st.tool.tool, e.text)
             r == Idxtool_run(st.tool, st.disk, after, e.outcome)
         IN  [raised |-> r.raised, tool |-> r.tool,
              disk |-> IF r.started THEN after ELSE st.disk,
              invoked |-> IF r.started THEN Append(st.invoked, file) ELSE st.invoked,
              exec |-> IF v = "run_pipeline" THEN r.value ELSE st.exec]

RECURSIVE IdxLoop(_, _, _, _)
IdxLoop(v, st, files, env) ==
    IF files = <<>> THEN st
    ELSE IdxLoop(v, IdxTurn(v, st, Head(files), env[Len(files)]), Tail(files), env)

\* run_index
run_index(v, t, d, env) ==
    LET st == [raised |-> FALSE, tool |-> t, disk |-> d, invoked |-> <<>>,
               exec |-> FALSE]
    IN  IF Idxtool_get_rerun(t, d).raised THEN [st EXCEPT !.raised = TRUE]
        ELSE IF Idxtool_get_rerun(t, d).value THEN IdxLoop(v, st, t.files, env)
        ELSE st

\* what a start of a binary does: the text it leaves and how it ends
Effects(texts) == [text : texts, outcome : Outcomes]

\* what each start of a binary leaves behind: one effect for each file of the tool,
\* none when the tool is not run
BibEnvs(t, d) ==
    IF ~Bibtool_get_rerun(t, d).raised /\ Bibtool_get_rerun(t, d).value
    THEN [1..Len(t.files) -> Effects(LoopTexts)] ELSE {<<>>}

IdxEnvs(t, d) ==
    IF ~Idxtool_get_rerun(t, d).raised /\ Idxtool_get_rerun(t, d).value
    THEN [1..Len(t.files) -> Effects(LoopTexts)] ELSE {<<>>}

\* a call of a method of a tool: the n-th, what it did and what it returned
Call(n, op, didStart, didRaise, result) ==
    [n |-> n, op |-> op, started |-> didStart, raised |-> didRaise, value |-> result]

NoCall == Call(0, "none", FALSE, FALSE, FALSE)

\* no record has been formatted
NoFormat == [op |-> "none", m |-> Message("", <<>>, <<>>, "", ""), spec |-> "",
             result |-> Formatted(<<>>, "", <<>>, Message("", <<>>, <<>>, "", ""))]

CollIdle ==
    /\ collection = <<>>
    /\ bucket = EmptyProcessorWarnings
    /\ inserted = <<>>
    /\ formatted = NoFormat

Init ==
    /\ variant \in Variants
    /\ setup \in Setups
    /\ disk = InitialDisk(setup)
    /\ doc = "rerun"
    /\ quiet = FALSE
    /\ Processor_init
    /\ nb_cycles = 0
    /\ bibtool = NoBibtool
    /\ idxtool = NoIdxtool
    /\ bib_exec = FALSE
    /\ index_exec = FALSE
    /\ bibInvoked = <<>>
    /\ idxInvoked = <<>>
    /\ allRerun = TRUE
    /\ cap_warned = FALSE
    /\ exit_status = <<>>
    /\ pdf = "unchecked"
    /\ call = NoCall
    /\ pc = "while"
    /\ CollIdle

\* the test of the while loop
While ==
    /\ pc = "while"
    /\ IF LoopCondition
       THEN /\ pc' = "run_latex"
            /\ bibInvoked' = <<>>
            /\ idxInvoked' = <<>>
       ELSE /\ pc' = "after"
            /\ UNCHANGED <<bibInvoked, idxInvoked>>
    /\ UNCHANGED <<doc, procVars, variant, setup, disk, nb_cycles, bibtool, idxtool,
                   bib_exec, index_exec, allRerun, cap_warned, exit_status, collVars, pdf, call>>

\* run_latex, and the exit on errors
RunLatex ==
    /\ pc = "run_latex"
    /\ runs <= max_nb_cycles
    /\ \E log \in Logs(doc), rc \in ReturnCodes : Processor_run(log, rc)
    /\ disk' \in CompileWrites(disk, LoopTexts)
    /\ nb_cycles' = IF variant = "run_pipeline" /\ ~raised' THEN NextCycle(nb_cycles)
                    ELSE nb_cycles
    /\ allRerun' = (allRerun /\ ~raised' /\ rerun')
    /\ IF raised' THEN pc' = "crashed" /\ exit_status' = <<1>>
       ELSE IF ErrorsFound(errors') THEN pc' = "failed" /\ exit_status' = <<1>>
       ELSE pc' = NextStage("run_latex") /\ UNCHANGED exit_status
    /\ UNCHANGED <<doc, variant, setup, bibtool, idxtool, bib_exec, index_exec,
                   bibInvoked, idxInvoked, cap_warned, collVars, pdf, call>>

\* the Bibtool is built if there is none, then run_bib
RunBib ==
    /\ pc = "run_bib"
    /\ \E built \in {GetBibtool(bibtool, disk, setup.bib_hint)} :
         IF built.raised
         THEN /\ pc' = "crashed"
              /\ exit_status' = <<1>>
              /\ UNCHANGED <<bibtool, disk, bibInvoked, bib_exec>>
         ELSE \E env \in BibEnvs(built.value, disk) :
              \E r \in {run_bib(variant, built.value, disk, env)} :
                /\ bibtool' = r.tool
                /\ disk' = r.disk
                /\ bibInvoked' = r.invoked
                /\ IF r.raised
                   THEN /\ pc' = "crashed"
                        /\ exit_status' = <<1>>
                        /\ UNCHANGED bib_exec
                   ELSE /\ pc' = NextStage("run_bib")
                        /\ bib_exec' = IF variant = "run_pipeline" THEN r.exec
                                       ELSE bib_exec
                        /\ UNCHANGED exit_status
    /\ UNCHANGED <<doc, procVars, variant, setup, nb_cycles, idxtool, index_exec,
                   idxInvoked, allRerun, cap_warned, collVars, pdf, call>>

\* the Idxtool is built if there is none, then run_index; main counts the cycle
RunIndex ==
    /\ pc = "run_index"
    /\ \E built \in {GetIdxtool(idxtool, disk, setup.index_hint)} :
         IF built.raised
         THEN /\ pc' = "crashed"
              /\ exit_status' = <<1>>
              /\ UNCHANGED <<idxtool, disk, idxInvoked, index_exec, nb_cycles>>
         ELSE \E env \in IdxEnvs(built.value, disk) :
              \E r \in {run_index(variant, built.value, disk, env)} :
                /\ idxtool' = r.tool
                /\ disk' = r.disk
                /\ idxInvoked' = r.invoked
                /\ IF r.raised
                   THEN /\ pc' = "crashed"
                        /\ exit_status' = <<1>>
                        /\ UNCHANGED <<index_exec, nb_cycles>>
                   ELSE /\ pc' = NextStage("run_index")
                        /\ index_exec' = IF variant = "run_pipeline" THEN r.exec
                                         ELSE index_exec
                        /\ nb_cycles' = IF variant = "main" THEN NextCycle(nb_cycles)
                                        ELSE nb_cycles
                        /\ UNCHANGED exit_status
    /\ UNCHANGED <<doc, procVars, variant, setup, bibtool, bib_exec, bibInvoked,
                   allRerun, cap_warned, collVars, pdf, call>>

\* the warning after the loop
AfterLoop ==
    /\ pc = "after"
    /\ cap_warned' = CapWarning
    /\ pc' = "check_pdf"
    /\ UNCHANGED <<doc, procVars, variant, setup, disk, nb_cycles, bibtool, idxtool,
                   bib_exec, index_exec, bibInvoked, idxInvoked, allRerun,
                   exit_status, collVars, pdf, call>>

\* a pipeline that does not look for the .pdf file
PdfOutcomeUnchecked(exists) == "done"

\* "if not src.exists()": the program ends there, or goes on to the report
PdfOutcome(exists) == IF exists THEN "done" ELSE "nopdf"

\* a missing .pdf file that is no failure
NoPdfExitZero == <<0>>

\* sys.exit(1) when the .pdf file is missing
NoPdfExit == <<1>>

\* the .pdf file is there, or it is not
CheckPdf ==
    /\ pc = "check_pdf"
    /\ \E exists \in BOOLEAN :
         /\ pdf' = IF exists THEN "exists" ELSE "missing"
         /\ pc' = PdfOutcome(exists)
         /\ exit_status' = IF pc' = "done" THEN <<0>> ELSE NoPdfExit
    /\ UNCHANGED <<doc, procVars, variant, setup, disk, nb_cycles, bibtool, idxtool,
                   bib_exec, index_exec, bibInvoked, idxInvoked, allRerun,
                   cap_warned, collVars, call>>

Next == While \/ RunLatex \/ RunBib \/ RunIndex \/ AfterLoop \/ CheckPdf

Spec == Init /\ [][Next]_vars

\* every invocation is a blocking call that returns: the program keeps going
FairSpec == Spec /\ WF_vars(Next)

Ended == pc \in {"done", "nopdf", "failed", "crashed"}

-----------------------------------------------------------------------------
(* A Processor driven by any caller: run() after run() *)

LoopIdle ==
    /\ variant = "main"
    /\ setup = Setup("", "", FALSE, 0, FALSE, FALSE, 0)
    /\ disk = InitialDisk(setup)
    /\ nb_cycles = 0
    /\ bibtool = NoBibtool
    /\ idxtool = NoIdxtool
    /\ bib_exec = FALSE
    /\ index_exec = FALSE
    /\ bibInvoked = <<>>
    /\ idxInvoked = <<>>
    /\ allRerun = TRUE
    /\ cap_warned = FALSE
    /\ exit_status = <<>>
    /\ pdf = "unchecked"
    /\ call = NoCall

ProcInit ==
    /\ doc \in Documents
    /\ quiet \in BOOLEAN
    /\ Processor_init
    /\ pc = "processor"
    /\ LoopIdle
    /\ CollIdle

Run ==
    /\ pc = "processor"
    /\ runs < MaxRuns
    /\ \E log \in Logs(doc), rc \in ReturnCodes : Processor_run(log, rc)
    /\ UNCHANGED <<doc, pc, loopVars, collVars>>

ProcNext == Run

ProcSpec == ProcInit /\ [][ProcNext]_vars

-----------------------------------------------------------------------------
(* A Bibtool and an Idxtool driven by any caller, side by side: they are    *)
(* built, asked get_rerun() and run, while compilations rewrite the files   *)

ToolSetups ==
    Setups \cup { Setup("", "", TRUE, 0, TRUE, TRUE, 0) }    \* a .bcf and a tagged .idx

ToolInit ==
    /\ variant = "main"
    /\ setup \in ToolSetups
    /\ disk = InitialDisk(setup)
    /\ doc = "rerun"
    /\ quiet = FALSE
    /\ Processor_init
    /\ nb_cycles = 0
    /\ bibtool = NoBibtool
    /\ idxtool = NoIdxtool
    /\ bib_exec = FALSE
    /\ index_exec = FALSE
    /\ bibInvoked = <<>>
    /\ idxInvoked = <<>>
    /\ allRerun = TRUE
    /\ cap_warned = FALSE
    /\ exit_status = <<>>
    /\ pdf = "unchecked"
    /\ call = NoCall
    /\ pc = "tools"
    /\ CollIdle

\* what a call of the caller leaves alone
ToolFrame ==
    UNCHANGED <<doc, procVars, pc, variant, setup, nb_cycles, bib_exec, index_exec,
                allRerun, cap_warned, exit_status, pdf, collVars>>

\* bib.Bibtool(texfile, encoding, bib_hint)
NewBibtool ==
    /\ pc = "tools"
    /\ call.n < MaxCalls
    /\ ~bibtool.built
    /\ bibtool' = Bibtool_init(disk, setup.bib_hint).value
    /\ call' = Call(call.n + 1, "Bibtool", FALSE, FALSE, FALSE)
    /\ UNCHANGED <<disk, idxtool, bibInvoked, idxInvoked>>
    /\ ToolFrame

\* index.Idxtool(texfile, encoding, index_hint)
NewIdxtool ==
    /\ pc = "tools"
    /\ call.n < MaxCalls
    /\ ~idxtool.built
    /\ idxtool' = IF Idxtool_init(disk, setup.index_hint).raised THEN idxtool
                  ELSE Idxtool_init(disk, setup.index_hint).value
    /\ call' = Call(call.n + 1, "Idxtool", FALSE,
                    Idxtool_init(disk, setup.index_hint).raised, FALSE)
    /\ UNCHANGED <<disk, bibtool, bibInvoked, idxInvoked>>
    /\ ToolFrame

\* bibtool.get_rerun()
BibGetRerun ==
    /\ pc = "tools"
    /\ call.n < MaxCalls
    /\ bibtool.built
    /\ call' = Call(call.n + 1, "Bibtool.get_rerun", FALSE,
                    Bibtool_get_rerun(bibtool, disk).raised,
                    ~Bibtool_get_rerun(bibtool, disk).raised
                        /\ Bibtool_get_rerun(bibtool, disk).value)
    /\ bibtool' = Bibtool_get_rerun_leaves(bibtool, disk)
    /\ UNCHANGED <<disk, idxtool, bibInvoked, idxInvoked>>
    /\ ToolFrame

\* idxtool.get_rerun()
IdxGetRerun ==
    /\ pc = "tools"
    /\ call.n < MaxCalls
    /\ idxtool.built
    /\ call' = Call(call.n + 1, "Idxtool.get_rerun", FALSE,
                    Idxtool_get_rerun(idxtool, disk).raised,
                    ~Idxtool_get_rerun(idxtool, disk).raised
                        /\ Idxtool_get_rerun(idxtool, disk).value)
    /\ idxtool' = Idxtool_get_rerun_leaves(idxtool, disk)
    /\ UNCHANGED <<disk, bibtool, bibInvoked, idxInvoked>>
    /\ ToolFrame

\* the getters of a Bibtool, each returning the attribute as it is
BibGetters == {"Bibtool.get_fingerprint", "Bibtool.get_bibfiles", "Bibtool.get_tool"}

\* the getters of an Idxtool
IdxGetters == {"Idxtool.get_fingerprint", "Idxtool.get_idx_files", "Idxtool.get_tool"}

\* bibtool.get_fingerprint(), bibtool.get_bibfiles(), bibtool.get_tool()
BibGet ==
    /\ pc = "tools"
    /\ call.n < MaxCalls
    /\ bibtool.built
    /\ \E op \in BibGetters : call' = Call(call.n + 1, op, FALSE, FALSE, FALSE)
    /\ UNCHANGED <<disk, bibtool, idxtool, bibInvoked, idxInvoked>>
    /\ ToolFrame

\* idxtool.get_fingerprint(), idxtool.get_idx_files(), idxtool.get_tool()
IdxGet ==
    /\ pc = "tools"
    /\ call.n < MaxCalls
    /\ idxtool.built
    /\ \E op \in IdxGetters : call' = Call(call.n + 1, op, FALSE, FALSE, FALSE)
    /\ UNCHANGED <<disk, bibtool, idxtool, bibInvoked, idxInvoked>>
    /\ ToolFrame

\* bibtool.run(file), the binary, if started, doing e
BibRun ==
    /\ pc = "tools"
    /\ call.n < MaxCalls
    /\ bibtool.built
    /\ \E file \in Range(bibtool.files) \cup {"a.tex"}, e \in Effects(Texts) :
       \E after \in {IF Bibtool_run_skip(bibtool) THEN disk
                      ELSE BibWrites(disk, bibtool.tool, e.text)} :
       \E r \in {Bibtool_run(bibtool, disk, after, e.outcome)} :
         /\ bibtool' = r.tool
         /\ disk' = after
         /\ bibInvoked' = IF r.started THEN <<file>> ELSE <<>>
         /\ call' = Call(call.n + 1, "Bibtool.run", r.started, r.raised, r.value)
    /\ UNCHANGED <<idxtool, idxInvoked>>
    /\ ToolFrame

\* idxtool.run(file), the binary, if started, doing e
IdxRun ==
    /\ pc = "tools"
    /\ call.n < MaxCalls
    /\ idxtool.built
    /\ \E file \in Range(idxtool.files) \cup {"a.tex"}, e \in Effects(Texts) :
       \E after \in {IF Idxtool_run_skip(idxtool) THEN disk
                      ELSE IdxWrites(disk, idxtool.tool, e.text)} :
       \E r \in {Idxtool_run(idxtool, disk, after, e.outcome)} :
         /\ idxtool' = r.tool
         /\ disk' = IF r.started THEN after ELSE disk
         /\ idxInvoked' = IF r.started THEN <<file>> ELSE <<>>
         /\ call' = Call(call.n + 1, "Idxtool.run", r.started, r.raised, r.value)
    /\ UNCHANGED <<bibtool, bibInvoked>>
    /\ ToolFrame

\* the document is compiled between two calls
Compile ==
    /\ pc = "tools"
    /\ call.n < MaxCalls
    /\ disk' \in CompileWrites(disk, Texts)
    /\ call' = Call(call.n + 1, "compile", FALSE, FALSE, FALSE)
    /\ UNCHANGED <<bibtool, idxtool, bibInvoked, idxInvoked>>
    /\ ToolFrame

ToolNext ==
    \/ NewBibtool \/ NewIdxtool \/ BibGetRerun \/ IdxGetRerun
    \/ BibRun \/ IdxRun \/ Compile \/ BibGet \/ IdxGet

ToolSpec == ToolInit /\ [][ToolNext]_vars

-----------------------------------------------------------------------------
(* The two containers driven by any caller: additions and membership tests *)

WarningRecords == {NewWarning(W1), NewWarning(W3), NewWarning(WC), NewWarning(WR)}

Records == WarningRecords \cup {NewError(E1), NewError(E2)}

Op(op, m) == [op |-> op, m |-> m]

CollInit ==
    /\ doc = "names"
    /\ quiet = FALSE
    /\ Processor_init
    /\ pc = "collection"
    /\ LoopIdle
    /\ CollIdle

\* collection += m
AddMessage ==
    /\ pc = "collection"
    /\ Len(inserted) < MaxOps
    /\ \E m \in Records :
         /\ collection' = MessagesIAdd(collection, m)
         /\ inserted' = Append(inserted, Op("add_message", m))
    /\ UNCHANGED <<doc, procVars, pc, loopVars, bucket, formatted>>

\* bucket += m
AddWarning ==
    /\ pc = "collection"
    /\ Len(inserted) < MaxOps
    /\ \E m \in WarningRecords :
         /\ bucket' = PWIAdd(bucket, m)
         /\ inserted' = Append(inserted, Op("add_warning", m))
    /\ UNCHANGED <<doc, procVars, pc, loopVars, collection, formatted>>

\* m in bucket
TestWarning ==
    /\ pc = "collection"
    /\ Len(inserted) < MaxOps
    /\ \E m \in WarningRecords :
         /\ bucket' = PWContainsTouch(bucket, m)
         /\ inserted' = Append(inserted, Op("test_warning", m))
    /\ UNCHANGED <<doc, procVars, pc, loopVars, collection, formatted>>

CollNext == AddMessage \/ AddWarning \/ TestWarning

CollSpec == CollInit /\ [][CollNext]_vars

-----------------------------------------------------------------------------
(* Records formatted by any caller *)

\* message.Message(mode=..., info=..., name=..., path=..., line=...): the records
\* a caller may build, those of process_warnings and of process_errors among them
FormatRecords ==
    {Message(mode, info, name, path, line) :
        mode \in {"", "LaTeX", "Package", "Class"},
        info \in {<<"a", " ", "b">>, <<" ", "Undefined">>},
        name \in {<<>>, <<"p">>},
        path \in {"", "ch.tex"},
        line \in {"", "42"}}

FormatInit ==
    /\ doc = "names"
    /\ quiet = FALSE
    /\ Processor_init
    /\ pc = "format"
    /\ LoopIdle
    /\ CollIdle

\* format(m, spec), f"{m:spec}"
FormatMessage ==
    /\ pc = "format"
    /\ \E m \in FormatRecords, spec \in FormatSpecs :
         formatted' = [op |-> "format", m |-> m, spec |-> spec,
                       result |-> Message_format(m, spec)]
    /\ UNCHANGED <<doc, procVars, pc, loopVars, collection, bucket, inserted>>

FormatNext == FormatMessage

FormatSpec == FormatInit /\ [][FormatNext]_vars

-----------------------------------------------------------------------------
(* What the claims speak of *)

\* the loop is over and the warning, if any, was given
PastWarning == pc \in {"check_pdf", "done", "nopdf"}

\* a bound on the steps the pipeline still takes: four for each pass it may
\* still start, and those left of the cycle, or of the end of the program
StepsLeft ==
    LET left == 4 * (max_nb_cycles - runs)
    IN  CASE pc = "while" -> left + 3
          [] pc = "run_latex" -> left + 2
          [] pc = "run_bib" -> left + 5
          [] pc = "run_index" -> left + 4
          [] pc = "after" -> 2
          [] pc = "check_pdf" -> 1
          [] OTHER -> 0

\* the bib tool, the index tool were started in the cycle last begun
BibExecuted == bibInvoked # <<>>
IdxExecuted == idxInvoked # <<>>

\* the file keys of a log, the empty one first, each once, by first occurrence
RECURSIVE FirstOccurrences(_, _)
FirstOccurrences(seen, items) ==
    IF items = <<>> THEN seen
    ELSE IF Head(items).kind = "file"
              /\ \A i \in 1..Len(seen) : seen[i] # Head(items).filename \o Head(items).suffix
         THEN FirstOccurrences(Append(seen, Head(items).filename \o Head(items).suffix),
                               Tail(items))
         ELSE FirstOccurrences(seen, Tail(items))

\* the positions of the warnings of the last log, and the record of each
WarnPositions == {i \in 1..Len(lastLog.items) : lastLog.items[i].kind = "warn"}
RecordAt(i) == NewWarning(lastLog.items[i])

\* the position where the record of position i is first seen
FirstSeen(i) == CHOOSE j \in WarnPositions :
    /\ RecordAt(j) = RecordAt(i)
    /\ \A k \in WarnPositions : RecordAt(k) = RecordAt(i) => j <= k

\* the file context at position i: the key of the last file match before it
ContextAt(i) ==
    LET opens == {j \in 1..(i - 1) : lastLog.items[j].kind = "file"}
    IN  IF opens = {} THEN <<>>
        ELSE LET j == CHOOSE x \in opens : \A y \in opens : y <= x
             IN  lastLog.items[j].filename \o lastLog.items[j].suffix

\* how often a list holds the record m
Occurrences(list, m) == Cardinality({i \in 1..Len(list) : list[i] = m})

RECURSIVE DictOccurrences(_, _, _)
DictOccurrences(d, keys, m) ==
    IF keys = {} THEN 0
    ELSE LET k == CHOOSE x \in keys : TRUE
         IN  Occurrences(d[k], m) + DictOccurrences(d, keys \ {k}, m)

\* how often the bucket of the file key k holds the record m
Stored(k, m) ==
    IF k \notin DOMAIN warnings THEN 0
    ELSE DictOccurrences(warnings[k].latex, DOMAIN warnings[k].latex, m)
         + DictOccurrences(warnings[k].package, DOMAIN warnings[k].package, m)
         + DictOccurrences(warnings[k].class, DOMAIN warnings[k].class, m)

\* how many warnings the buckets of the file keys hold, all together
RECURSIVE TotalStored(_)
TotalStored(keys) ==
    IF keys = {} THEN 0
    ELSE LET k == CHOOSE x \in keys : TRUE
         IN  PWCount(warnings[k]) + TotalStored(keys \ {k})

\* in how many buckets, and how often in them, the record m is stored
RECURSIVE StoredIn(_, _)
StoredIn(keys, m) ==
    IF keys = {} THEN 0
    ELSE LET k == CHOOSE x \in keys : TRUE
         IN  Stored(k, m) + StoredIn(keys \ {k}, m)

\* how often the report of run() shows the record m: it goes through the ledger
\* and formats the bucket of each entry
RECURSIVE ShownTimes(_, _)
ShownTimes(files, m) ==
    IF files = <<>> THEN 0
    ELSE (IF PWLen(DictGet(warnings, Head(files), EmptyProcessorWarnings)) > 0
          THEN Stored(Head(files), m) ELSE 0) + ShownTimes(Tail(files), m)

\* the file contexts that own a recorded warning
Owners == {k \in DOMAIN warnings : PWCount(warnings[k]) > 0}

\* every warning any bucket holds
AllStored == UNION {PWMessages(warnings[k]) : k \in DOMAIN warnings}

\* the records of the last log
LogWarnings == {RecordAt(i) : i \in WarnPositions}
LogErrors == process_errors(<<>>, lastLog.items)

\* the matches of RE_ERROR in the last log, in the order of the log
IsErrorMatch(m) == m.kind = "error"
ErrorMatches == SelectSeq(lastLog.items, IsErrorMatch)

\* the ledger holds no entry twice
NoDuplicates(s) == \A i, j \in 1..Len(s) : s[i] = s[j] => i = j

\* an auxiliary file the selected tool expects is not there
MissingAux ==
    \/ setup.bib_hint = "biber" /\ disk.bcf = 0
    \/ setup.index_hint = "splitindex" /\ disk.idx = 0

\* an exception left a tool: its constructor, get_rerun or run
ToolCrashed == pc = "crashed" /\ ~raised

\* the compilation passes completed so far that recorded no error: a pass that
\* records one, or that an exception leaves, ends the program
ErrorFreePasses == IF raised \/ Len(errors) > 0 THEN runs - 1 ELSE runs

\* the places where the cycle counter is read: the test of the loop, and past it
CounterRead == pc \in {"while", "after", "check_pdf", "done", "nopdf"}

\* the records added to the Messages, to the ProcessorWarnings
AddedMessages == {inserted[i].m : i \in {j \in 1..Len(inserted) : inserted[j].op = "add_message"}}
AddedWarnings == {inserted[i].m : i \in {j \in 1..Len(inserted) : inserted[j].op = "add_warning"}}

\* the records handed to the containers so far
Handed == {inserted[i].m : i \in 1..Len(inserted)}

\* s is the start of t
IsPrefix(s, t) == Len(s) <= Len(t) /\ s = SubSeq(t, 1, Len(s))

\* the relevant directives of the files a tool reads
BibRelevant(d, tool) == IF tool = "biber" THEN Rel(d.bcf) ELSE Rel(d.aux)
IdxRelevant(d, tool) == Rel(d.idx)

-----------------------------------------------------------------------------
(* The claims *)

\* C1: whatever the compiler and the tools signal, the loop ends, and no run
\* of the pipeline makes more than max_nb_cycles = 5 compilation passes: every
\* step of the pipeline lowers StepsLeft, a natural number, and a step can be
\* taken until the pipeline has ended.
C1_Termination ==
    /\ [](runs <= max_nb_cycles /\ StepsLeft \in Nat /\ (~Ended => ENABLED Next))
    /\ [][StepsLeft' < StepsLeft]_vars

C1_Witness == pc = "done" /\ runs = max_nb_cycles

\* C2: a pass that records an error ends the program with status 1, whatever the
\* return code of the compiler: no tool is built or started in that cycle, and
\* nothing happens after the exit.
C2_FatalShortCircuit ==
    /\ [][(pc = "run_latex" /\ ~raised' /\ errors' # <<>>) =>
            /\ pc' = "failed"
            /\ exit_status' = <<1>>
            /\ bibtool' = bibtool /\ idxtool' = idxtool
            /\ ~BibExecuted' /\ ~IdxExecuted']_vars
    /\ [][pc # "failed"]_vars

C2_Witness ==
    pc = "failed" /\ errors # <<>> /\ return_code = <<0>> /\ exit_status = <<1>>

\* C3: after a cycle without errors the loop starts another cycle exactly when
\* (the compiler asks for a rerun, or the bib tool was started in the cycle just
\* finished, or the index tool was) and the cycle counter is below 5.
C3_Continue ==
    [][(pc = "while" /\ runs > 0) =>
         ((pc' = "run_latex") <=>
            ((rerun \/ BibExecuted \/ IdxExecuted) /\ nb_cycles < max_nb_cycles))]_vars

\* C4: five passes that all report rerun, and no error: the loop stops after the
\* fifth, there is no sixth pass, and the warning of the maximum is given.
C4_FivePasses ==
    /\ runs <= max_nb_cycles
    /\ (PastWarning /\ runs = max_nb_cycles /\ allRerun) => cap_warned

C4_Witness == pc = "done" /\ runs = max_nb_cycles /\ allRerun /\ cap_warned

C6_AtLeastOnePass ==
    /\ runs = 0 => rerun
    /\ (Ended \/ pc \in {"after", "check_pdf"}) => runs >= 1

C6_Witness == pc = "done" /\ runs = 1

\* C7: after a run the buckets, the global collection and the list of errors
\* hold only records of the log of that run, nothing of an earlier pass.
C7_PerPass ==
    runs > 0 =>
        /\ AllStored \subseteq LogWarnings
        /\ Range(global_warnings) \subseteq LogWarnings
        /\ errors = LogErrors

C7_Witness ==
    /\ runs >= 2 /\ hadDiagnostics /\ ~raised
    /\ global_warnings = <<>> /\ errors = <<>> /\ AllStored = {}

\* C8: after a run the ledger is the empty entry followed by the files opened in
\* the log of that run, nothing of an earlier pass.
C8_LedgerCleared ==
    (runs > 0 /\ ~raised) => input_files = FirstOccurrences(<< <<>> >>, lastLog.items)

\* C9: within a pass every distinct warning is stored exactly once, in the bucket
\* of the file that was current when it was first seen, and in no other bucket.
C9_StoredOnce ==
    (runs > 0 /\ ~raised) =>
        \A i \in WarnPositions :
            /\ Stored(ContextAt(FirstSeen(i)), RecordAt(i)) = 1
            /\ \A k \in DOMAIN warnings :
                   k # ContextAt(FirstSeen(i)) => Stored(k, RecordAt(i)) = 0

C9_Witness ==
    /\ runs > 0 /\ ~raised
    /\ lastLog.items = <<W1, F1, W1>>
    /\ Stored(<<>>, NewWarning(W1)) = 1
    /\ Len(global_warnings) = 1

\* C10: adding a record a collection already holds changes nothing: a collection
\* holds each record added once, and the same record added twice to an empty
\* Messages or ProcessorWarnings gives length 1.
C10_Idempotent ==
    /\ MessagesLen(collection) = Cardinality(AddedMessages)
    /\ \A m \in AddedMessages : Occurrences(collection, m) = 1
    /\ PWMessages(bucket) = AddedWarnings
    /\ PWCount(bucket) = Cardinality(AddedWarnings)
    /\ \A m \in Records :
           /\ inserted = <<Op("add_message", m), Op("add_message", m)>>
                  => MessagesLen(collection) = 1
           /\ inserted = <<Op("add_warning", m), Op("add_warning", m)>>
                  => PWLen(bucket) = 1

C10_Witness ==
    /\ Len(inserted) = 3
    /\ inserted[1] = inserted[2]
    /\ inserted[1].op = "add_message"
    /\ inserted[3].op = "add_warning"
    /\ inserted[3].m = inserted[1].m
    /\ MessagesLen(collection) = 1
    /\ PWLen(bucket) = 1
    /\ PWCount(bucket) = 1

C12_ErrorsKept ==
    (runs > 0 /\ ~raised) =>
        /\ Len(errors) = Len(ErrorMatches)
        /\ \A i \in 1..Len(ErrorMatches) :
              errors[i] = Message("", ErrorMatches[i].body, <<>>,
                                  ErrorMatches[i].path, ErrorMatches[i].line)

C12_Witness ==
    /\ runs > 0
    /\ lastLog.items = <<E1, E2, E1>>
    /\ Len(errors) = 3
    /\ errors[1] = errors[3]
    /\ errors[1] # errors[2]

\* C13: after every pass that completes, the rerun flag is true exactly when the
\* log of that pass holds a match of the rerun pattern, whatever the flag was
\* before the pass.
C13_RerunFromLog ==
    (runs > 0 /\ ~raised) =>
        (rerun <=> \E i \in 1..Len(lastLog.items) :
                      /\ lastLog.items[i].kind = "warn"
                      /\ \/ lastLog.items[i].mode = "LaTeX" /\ lastLog.items[i].name = <<>>
                         \/ lastLog.items[i].mode = "Package"
                      /\ "Rerun" \in Range(lastLog.items[i].msg))

C13_Witness ==
    /\ runs > 0
    /\ ~raised
    /\ lastLog.items = <<E1>>
    /\ ~rerun

\* C14: when the compiler leaves no log file the pass completes: no exception
\* leaves run, no diagnostics are recorded and the rerun flag is the one the
\* Processor had before the pass.
C14_LogAbsent ==
    [][(runs' = runs + 1 /\ ~lastLog'.exists)
         => /\ ~raised'
            /\ rerun' = rerun
            /\ errors' = <<>>
            /\ global_warnings' = <<>>]_vars

\* C15: when an auxiliary file the selected tool expects is missing (biber and
\* no .bcf file, splitindex and no .idx file), no exception leaves the tool and
\* the pipeline goes on.
C15_MissingAuxRecoverable == MissingAux => ~ToolCrashed

\* C16: a pass with no error and a return code that is not null is reported as
\* such, not as a clean pass, and the cycle goes on to the tools as it does
\* after a clean pass: it does not end the program.
C16_Anomalous ==
    /\ []((runs > 0 /\ ~raised /\ errors = <<>>)
            => (report = "ERROR_NO_ERROR_FOUND" <=> return_code # <<0>>))
    /\ [][(pc = "run_latex" /\ ~raised' /\ errors' = <<>>)
             => (pc' = "run_bib" /\ exit_status' = <<>>)]_vars

C16_Witness ==
    /\ pc = "run_index"
    /\ return_code = <<1>>
    /\ errors = <<>>
    /\ report = "ERROR_NO_ERROR_FOUND"
    /\ bibInvoked # <<>>

C18_NoPdfFatal ==
    /\ [](pdf = "missing" => (pc = "nopdf" /\ exit_status = <<1>>))
    /\ [][pc # "nopdf"]_vars

C18_Witness ==
    /\ pc = "nopdf"
    /\ pdf = "missing"
    /\ cap_warned
    /\ exit_status = <<1>>

\* C19: a tool object with a selected tool that was never run (its stored
\* fingerprint is the empty string) answers get_rerun() with True, and otherwise
\* with True exactly when the fingerprint of the files now is not the stored one.
C19_GetRerun ==
    /\ (idxtool.built /\ ~NoTool(idxtool.tool)
           /\ ~Idxtool_get_rerun(idxtool, disk).raised)
          => /\ idxtool.fingerprint = <<>> => Idxtool_get_rerun(idxtool, disk).value
             /\ Idxtool_get_rerun(idxtool, disk).value
                  <=> hash_index_files(disk, idxtool.tool).value # idxtool.fingerprint
    /\ (bibtool.built /\ ~NoTool(bibtool.tool)
           /\ ~Bibtool_get_rerun(bibtool, disk).raised)
          => /\ bibtool.fingerprint = <<>> => Bibtool_get_rerun(bibtool, disk).value
             /\ Bibtool_get_rerun(bibtool, disk).value
                  <=> hash_bibfiles(disk, bibtool.tool).value # bibtool.fingerprint

C21_FingerprintBefore ==
    /\ [][(call'.op = "Bibtool.run" /\ call'.started /\ ~call'.raised)
             => bibtool'.fingerprint = hash_bibfiles(disk, bibtool.tool).value]_vars
    /\ [][(call'.op = "Idxtool.run" /\ call'.started /\ ~call'.raised)
             => idxtool'.fingerprint = hash_index_files(disk, idxtool.tool).value]_vars

\* C22: run(file) on a tool object for which no tool was selected does nothing:
\* no process is started, nothing is raised, and the stored fingerprint, the
\* return code and the captured output are the ones the object had; the files
\* are left as they were.
C22_NoToolNoOp ==
    /\ [][(call'.op = "Bibtool.run" /\ NoTool(bibtool.tool))
             => /\ ~call'.started /\ ~call'.raised
                /\ bibtool'.fingerprint = bibtool.fingerprint
                /\ bibtool'.return_code = bibtool.return_code
                /\ bibtool'.stdout = bibtool.stdout
                /\ bibtool'.stderr = bibtool.stderr
                /\ bibtool' = bibtool
                /\ disk' = disk]_vars
    /\ [][(call'.op = "Idxtool.run" /\ NoTool(idxtool.tool))
             => /\ ~call'.started /\ ~call'.raised
                /\ idxtool'.fingerprint = idxtool.fingerprint
                /\ idxtool'.return_code = idxtool.return_code
                /\ idxtool'.stdout = idxtool.stdout
                /\ idxtool'.stderr = idxtool.stderr
                /\ idxtool' = idxtool
                /\ disk' = disk]_vars

C22_Witness ==
    /\ call.n = 4
    /\ call.op = "Idxtool.run"
    /\ ~call.started
    /\ bibtool.built /\ NoTool(bibtool.tool)
    /\ idxtool.built /\ NoTool(idxtool.tool)
    /\ bibInvoked = <<>> /\ idxInvoked = <<>>
    /\ bibtool.return_code = <<>> /\ bibtool.stdout = <<>>
    /\ idxtool.return_code = <<>> /\ idxtool.stdout = <<>>
    /\ idxtool.fingerprint = <<>>

\* C23: a Bibtool built without a hint holds biber when the .bcf file exists,
\* bibtex when it does not and some .aux file holds a bib directive, and no tool
\* otherwise; in the last case no bib binary is started in the whole run of the
\* pipeline: the object never gets a return code or a fingerprint.
C23_BibSelection ==
    (bibtool.built /\ NoTool(setup.bib_hint)) =>
        /\ disk.bcf # 0 => bibtool.tool = "biber"
        /\ (disk.bcf = 0 /\ disk.nAux > 0) => bibtool.tool = "bibtex"
        /\ (disk.bcf = 0 /\ disk.nAux = 0) =>
              /\ bibtool.tool = "None"
              /\ bibInvoked = <<>>
              /\ bibtool.return_code = <<>>
              /\ bibtool.fingerprint = <<>>

C23_Witness ==
    /\ pc = "done"
    /\ runs >= 2
    /\ setup.bib_hint = ""
    /\ disk.bcf = 0 /\ disk.nAux = 0
    /\ bibtool.built /\ bibtool.tool = "None"
    /\ bibtool.return_code = <<>>
    /\ bibtool.fingerprint = <<>>

\* C24: an Idxtool built without a hint holds splitindex when the one .idx file
\* has a tagged entry, makeindex when the one .idx file has only untagged
\* entries and there is no <texfile>-*.idx file, makeindex when there are several
\* <texfile>-*.idx files, and no tool when there is no index entry at all.
C24_IndexSelection ==
    (call.op = "Idxtool" /\ NoTool(setup.index_hint)) =>
        /\ ~call.raised
        /\ idxtool.built
        /\ (disk.idx # 0 /\ disk.tagged) => idxtool.tool = "splitindex"
        /\ (disk.idx # 0 /\ ~disk.tagged /\ disk.groups = 0)
              => idxtool.tool = "makeindex"
        /\ (~(disk.idx # 0 /\ disk.tagged) /\ disk.groups > 1)
              => idxtool.tool = "makeindex"
        /\ (disk.idx = 0 /\ disk.groups = 0) => idxtool.tool = "None"

\* C25: a tool object built with a hint holds the hinted tool, whatever the guess
\* is, and a hinted tool whose files are there (the .bcf file for biber, an .aux
\* file with directives for another bib tool, the .idx file for an index tool)
\* is started in the first cycle.
C25_HintWins ==
    /\ (bibtool.built /\ ~NoTool(setup.bib_hint)) => bibtool.tool = setup.bib_hint
    /\ (idxtool.built /\ ~NoTool(setup.index_hint)) => idxtool.tool = setup.index_hint
    /\ (runs = 1 /\ pc = "run_index" /\ ~NoTool(setup.bib_hint)
           /\ (IF setup.bib_hint = "biber" THEN disk.bcf # 0 ELSE disk.nAux > 0))
          => bibInvoked # <<>>
    /\ (runs = 1 /\ pc = "while" /\ ~NoTool(setup.index_hint) /\ disk.idx # 0)
          => idxInvoked # <<>>

\* C26: for a tool the selection can give (biber, bibtex, splitindex, makeindex)
\* that has files to read, two states of the auxiliary files, before and after a
\* compilation, have the same fingerprint exactly when the relevant directives
\* of the files are the same: other content does not count, one directive
\* changed does.
C26_FingerprintStable ==
    /\ [][(/\ call'.op = "compile"
            /\ bibtool.built /\ bibtool.tool \in {"biber", "bibtex"}
            /\ bibtool.files # <<>>
            /\ ~hash_bibfiles(disk, bibtool.tool).raised)
             => (hash_bibfiles(disk', bibtool.tool).value
                    = hash_bibfiles(disk, bibtool.tool).value
                 <=> BibRelevant(disk', bibtool.tool)
                        = BibRelevant(disk, bibtool.tool))]_vars
    /\ [][(/\ call'.op = "compile"
            /\ idxtool.built /\ idxtool.tool \in {"splitindex", "makeindex"}
            /\ idxtool.files # <<>>
            /\ ~hash_index_files(disk, idxtool.tool).raised)
             => (hash_index_files(disk', idxtool.tool).value
                    = hash_index_files(disk, idxtool.tool).value
                 <=> IdxRelevant(disk', idxtool.tool)
                        = IdxRelevant(disk, idxtool.tool))]_vars

\* C27: each tool object is built once, in the first cycle that comes to it, and
\* the same object goes through the later cycles: once built it is never
\* replaced, its tool and its files stay, its fingerprint changes only when its
\* binary is started, and a cycle that finds the fingerprint of the files equal
\* to the stored one leaves the object as it is and starts nothing.
C27_BuiltOnce ==
    /\ [][/\ bibtool' # bibtool => pc = "run_bib"
          /\ (pc = "run_bib" /\ pc' # "crashed") => bibtool'.built
          /\ bibtool.built =>
                /\ bibtool'.built
                /\ bibtool'.tool = bibtool.tool
                /\ bibtool'.files = bibtool.files
                /\ bibtool'.fingerprint # bibtool.fingerprint => bibInvoked' # <<>>
                /\ (/\ pc = "run_bib"
                    /\ ~hash_bibfiles(disk, bibtool.tool).raised
                    /\ hash_bibfiles(disk, bibtool.tool).value = bibtool.fingerprint)
                      => (bibtool' = bibtool /\ bibInvoked' = <<>>)]_vars
    /\ [][/\ idxtool' # idxtool => pc = "run_index"
          /\ (pc = "run_index" /\ pc' # "crashed") => idxtool'.built
          /\ idxtool.built =>
                /\ idxtool'.built
                /\ idxtool'.tool = idxtool.tool
                /\ idxtool'.files = idxtool.files
                /\ idxtool'.fingerprint # idxtool.fingerprint => idxInvoked' # <<>>
                /\ (/\ pc = "run_index"
                    /\ ~hash_index_files(disk, idxtool.tool).raised
                    /\ hash_index_files(disk, idxtool.tool).value = idxtool.fingerprint)
                      => (idxtool' = idxtool /\ idxInvoked' = <<>>)]_vars

C27_Witness ==
    /\ pc = "done"
    /\ runs = 3
    /\ bibtool.built /\ bibtool.return_code # <<>> /\ bibtool.fingerprint # <<>>
    /\ idxtool.built /\ idxtool.return_code # <<>> /\ idxtool.fingerprint # <<>>
    /\ bibInvoked = <<>>
    /\ idxInvoked = <<>>

\* C28: a cycle is a sequence: the compilation pass is made while no tool of the
\* cycle has been started, then the bib binary is started on the files of the
\* Bibtool one after the other, before any start of the index binary, then the
\* index binary on the files of the Idxtool; a start of a binary never comes
\* with a pass or with a start of the other binary.
C28_Sequential ==
    [][/\ runs' # runs =>
            (pc = "run_latex" /\ bibInvoked' = <<>> /\ idxInvoked' = <<>>)
       /\ (bibInvoked' # bibInvoked /\ bibInvoked' # <<>>) =>
            /\ pc = "run_bib"
            /\ runs' = runs
            /\ idxInvoked = <<>> /\ idxInvoked' = <<>>
            /\ IsPrefix(bibInvoked', bibtool'.files)
       /\ (idxInvoked' # idxInvoked /\ idxInvoked' # <<>>) =>
            /\ pc = "run_index"
            /\ runs' = runs
            /\ bibInvoked' = bibInvoked
            /\ IsPrefix(idxInvoked', idxtool'.files)
       /\ pc = "run_latex" => pc' \in {"run_bib", "failed", "crashed"}
       /\ pc = "run_bib" => pc' \in {"run_index", "crashed"}
       /\ pc = "run_index" => pc' \in {"while", "crashed"}]_vars

C28_Witness ==
    /\ pc = "while"
    /\ runs = 2
    /\ bibInvoked = <<"a.aux", "b.aux">>
    /\ idxInvoked = <<"a.idx">>

\* C29: two records are equal exactly when they are the same in every field
\* (mode, name, info, path, line), and equality is reflexive, symmetric and
\* transitive; a Messages holds two records that differ in one field only.
C29_Equality ==
    \A a \in Handed, b \in Handed, c \in Handed :
        /\ MessageEq(a, b) <=> a = b
        /\ MessageEq(a, a)
        /\ MessageEq(a, b) => MessageEq(b, a)
        /\ (MessageEq(a, b) /\ MessageEq(b, c)) => MessageEq(a, c)
        /\ (inserted[1].op = "add_message" /\ inserted[1].m = a
              /\ Len(inserted) > 1 /\ inserted[2].op = "add_message"
              /\ inserted[2].m = b)
             => (a # b => Len(collection) >= 2)

C29_Witness ==
    /\ Len(inserted) = 3
    /\ inserted[1] = Op("add_message", NewWarning(W1))
    /\ inserted[2] = Op("add_message", NewWarning(WC))
    /\ inserted[3] = Op("add_message", NewWarning(W1))
    /\ Len(collection) = 2
    /\ ~MessageEq(collection[1], collection[2])

\* C30: the two tools are one state machine: a Bibtool holding biber and an
\* Idxtool holding splitindex that stand in the same state (the same stored
\* fingerprint, files with the same text), run on the same effect of the binary,
\* start it or not alike and store the same fingerprint, and they answer
\* get_rerun() alike.
C30_SameMachine ==
    (/\ bibtool.built /\ bibtool.tool = "biber"
     /\ idxtool.built /\ idxtool.tool = "splitindex"
     /\ disk.bcf = disk.idx
     /\ bibtool.fingerprint = idxtool.fingerprint)
      => /\ \A e \in Effects(Texts) :
               LET b == Bibtool_run(bibtool, disk,
                                    BibWrites(disk, bibtool.tool, e.text), e.outcome)
                   i == Idxtool_run(idxtool, disk,
                                    IdxWrites(disk, idxtool.tool, e.text), e.outcome)
               IN  /\ b.started = i.started
                   /\ b.raised = i.raised
                   /\ b.tool.return_code = i.tool.return_code
                   /\ b.tool.fingerprint = i.tool.fingerprint
         /\ Bibtool_get_rerun(bibtool, disk) = Idxtool_get_rerun(idxtool, disk)

\* C31: the cycle counter starts at 0, moves by one and only by one in a cycle,
\* stays within 0..max_nb_cycles, and wherever it is read (at the test of the
\* loop and past the loop) it is the number of the error-free compilation
\* passes completed so far; inside a cycle it is that number or one less.
C31_CycleCounter ==
    /\ nb_cycles = 0
    /\ [](/\ nb_cycles \in 0..max_nb_cycles
          /\ CounterRead => nb_cycles = ErrorFreePasses
          /\ nb_cycles \in {runs - 1, runs})
    /\ [][/\ nb_cycles' \in {nb_cycles, nb_cycles + 1}
          /\ (pc # "while" /\ pc' = "while") => nb_cycles' = runs']_vars

C31_Witness ==
    /\ variant = "main"
    /\ pc = "while"
    /\ nb_cycles = 3
    /\ ErrorFreePasses = 3

\* C31 as worded: in every reachable state the cycle counter is the number of
\* the error-free compilation passes completed so far.
C31_AlwaysEqual == nb_cycles = ErrorFreePasses

C34_IdleRan ==
    /\ return_code = <<>>
    /\ [](return_code = <<>> <=> runs = 0)
    /\ [][/\ return_code # <<>> => return_code' # <<>>
          /\ return_code' # return_code => (pc = "run_latex" /\ runs' = runs + 1)
          /\ runs' # runs => return_code' \in {<<rc>> : rc \in ReturnCodes}]_vars

\* the second run() ended with an exception: the return code is that of the run
C34_Witness ==
    /\ runs = 2
    /\ raised
    /\ return_code = <<1>>

\* C35: len() of a ProcessorWarnings is the number of the messages it stores,
\* after any additions and membership tests.
C35_LenCountsMessages == PWLen(bucket) = PWCount(bucket)

\* C36: after every pass each recorded warning is stored once in one bucket and
\* once in the global collection, and nothing else is: the buckets hold, all
\* together, as many warnings as the global collection.
C36_BucketsMatchGlobal ==
    runs > 0 =>
        /\ TotalStored(DOMAIN warnings) = MessagesLen(global_warnings)
        /\ AllStored = Range(global_warnings)
        /\ \A m \in Range(global_warnings) :
              /\ StoredIn(DOMAIN warnings, m) = 1
              /\ Occurrences(global_warnings, m) = 1

\* a second pass whose log gives one warning in two file contexts
C36_Witness ==
    /\ runs = 2
    /\ ~raised
    /\ lastLog.items = <<W1, F2, W1>>
    /\ TotalStored(DOMAIN warnings) = 1
    /\ global_warnings = <<NewWarning(W1)>>

\* C37: after every pass every file context that owns a recorded warning is an
\* entry of the ledger, so that the report, which goes through the ledger and
\* shows the bucket of each entry, shows every recorded warning, once.
C37_OwnersInLedger ==
    runs > 0 =>
        /\ Owners \subseteq Range(input_files)
        /\ \A m \in AllStored \cup Range(global_warnings) :
              ShownTimes(input_files, m) = 1

\* a warning found inside a file, and found there again with other blanks
C37_Witness ==
    /\ runs = 1
    /\ ~quiet
    /\ lastLog.items = <<F1, W1, W1s>>
    /\ Owners = {<<"./a", ".tex">>}
    /\ ShownTimes(input_files, NewWarning(W1)) = 1

\* C38: the stored fingerprint of a tool changes only in a run() that starts the
\* binary; get_rerun() and the getters leave the fingerprint, the tool and the
\* list of files as they are, so that get_rerun() asked again, the files being
\* the same, gives the answer it has just given.
C38_OnlyRunStores ==
    [][/\ bibtool'.fingerprint # bibtool.fingerprint
            => (call'.op = "Bibtool.run" /\ call'.started)
       /\ idxtool'.fingerprint # idxtool.fingerprint
            => (call'.op = "Idxtool.run" /\ call'.started)
       /\ call'.op \in BibGetters \cup IdxGetters
                        \cup {"Bibtool.get_rerun", "Idxtool.get_rerun"}
            => (bibtool' = bibtool /\ idxtool' = idxtool)
       /\ call'.op = "Bibtool.get_rerun"
            => /\ call'.raised = Bibtool_get_rerun(bibtool', disk').raised
               /\ ~call'.raised => call'.value = Bibtool_get_rerun(bibtool', disk').value
       /\ call'.op = "Idxtool.get_rerun"
            => /\ call'.raised = Idxtool_get_rerun(idxtool', disk').raised
               /\ ~call'.raised => call'.value = Idxtool_get_rerun(idxtool', disk').value
       /\ (call.op = call'.op /\ call.op \in {"Bibtool.get_rerun", "Idxtool.get_rerun"})
            => (call'.raised = call.raised /\ call'.value = call.value)]_vars

\* get_rerun() asked of an Idxtool right after its run(): it says true, the binary
\* having changed the file, and the next call can ask it again
C38_Witness ==
    /\ call.op = "Idxtool.get_rerun"
    /\ call.n = 3
    /\ call.value
    /\ idxtool.fingerprint # <<>>
    /\ idxtool.return_code # <<>>

C40_FormatModes ==
    formatted.op = "format" =>
        /\ formatted.spec \notin {"proc_warning", "proc_error"} =>
              /\ formatted.result.raised
              /\ formatted.result.error = "ValueError"
              /\ formatted.spec \in Range(formatted.result.message)
              /\ formatted.result.returned = <<>>
        /\ formatted.spec \in {"proc_warning", "proc_error"} =>
              /\ ~formatted.result.raised
              /\ formatted.result.returned # <<>>
              /\ Range(formatted.m.info) \subseteq Range(formatted.result.returned)
        /\ formatted.result.record = formatted.m

\* a warning of process_warnings formatted with the default specification
C40_Witness ==
    /\ formatted.op = "format"
    /\ formatted.spec = ""
    /\ formatted.m = Message("Package", <<"a", " ", "b">>, <<"p">>, "", "")
    /\ formatted.result.raised

====
